---------------------------- MODULE Spec2Model ----------------------------
(***************************************************************************)
(* A model of the command-line task tracker of src/cli/main.py:            *)
(* TaskTracker (the store and its operations), parse_due_date, sort_tasks  *)
(* and the description cell of list_tasks.                                 *)
(*                                                                         *)
(* A Python str is a sequence of characters, each character a TLA+ string  *)
(* ("a", "7", "U4E2D" for the code point U+4E2D).  A datetime is the       *)
(* number of minutes since 1970-01-01 00:00; the ISO text the store keeps  *)
(* for a timestamp is represented by the datetime it denotes.  An optional *)
(* value is <<>> (None) or <<v>>.                                          *)
(***************************************************************************)
EXTENDS Integers, Sequences, FiniteSets, TLC

VARIABLES
    db,      \* the store file: None when absent, else <<mapping>>
    tasks,   \* TaskTracker.tasks of the latest run: task id -> record
    clock,   \* the wall clock
    last,    \* the latest command: its arguments and what it printed
    retired  \* the ids of the tasks deleted so far

vars == <<db, tasks, clock, last, retired>>

\* ------------------------------------------------------------------------
\* Bounds of the model.

\* add is not called once the next id would pass this
MaxId == 2
\* the clock advances at most this many minutes past Now0
MaxClock == 1
\* narrow and wide runs of a rendered description
MaxNarrow == 31
MaxWide == 16

\* ------------------------------------------------------------------------
\* Optional values and small helpers.

None == <<>>
Some(v) == <<v>>

Max(S) == CHOOSE x \in S : \A y \in S : y <= x

\* c * n
Rep(c, n) == [i \in 1..n |-> c]

\* ------------------------------------------------------------------------
\* Characters.

Digits == <<"0", "1", "2", "3", "4", "5", "6", "7", "8", "9">>

IsDigit(c) == \E i \in 1..10 : Digits[i] = c

DigitVal(c) == (CHOOSE i \in 1..10 : Digits[i] = c) - 1

\* ord() of the characters the model uses
Ord(c) ==
    CASE c = " " -> 32
      [] c = "." -> 46
      [] c = "A" -> 65
      [] c = "a" -> 97
      [] c = "b" -> 98
      [] c = "U3000" -> 12288
      [] c = "U3042" -> 12354
      [] c = "U4E2D" -> 20013
      [] c = "UFF21" -> 65313
      [] OTHER -> 63

\* str.lower() on one character
Lower(c) ==
    CASE c = "D" -> "d"
      [] c = "W" -> "w"
      [] c = "M" -> "m"
      [] OTHER -> c

\* ------------------------------------------------------------------------
\* int() and str().

RECURSIVE DigitsValue(_)
DigitsValue(s) ==
    IF s = <<>> THEN 0
    ELSE DigitsValue(SubSeq(s, 1, Len(s) - 1)) * 10 + DigitVal(s[Len(s)])

RECURSIVE Strip(_)
Strip(s) ==
    IF s = <<>> THEN s
    ELSE IF s[1] = " " THEN Strip(Tail(s))
    ELSE IF s[Len(s)] = " " THEN Strip(SubSeq(s, 1, Len(s) - 1))
    ELSE s

AllDigits(s) == s # <<>> /\ \A i \in 1..Len(s) : IsDigit(s[i])

RECURSIVE DigitsOf(_)
DigitsOf(n) ==
    IF n < 10 THEN <<Digits[n + 1]>>
    ELSE DigitsOf(n \div 10) \o <<Digits[(n % 10) + 1]>>

\* int(text): surrounding blanks, an optional sign, decimal digits
ParseInt(text) ==
    LET s == Strip(text)
        signed == s # <<>> /\ s[1] \in {"+", "-"}
        body == IF signed THEN Tail(s) ELSE s
    IN  IF AllDigits(body)
        THEN [ok |-> TRUE,
              val |-> IF signed /\ s[1] = "-" THEN 0 - DigitsValue(body)
                      ELSE DigitsValue(body)]
        ELSE [ok |-> FALSE, val |-> 0]

\* int() of the ids a store of the model holds, computed once
IdInts == [s \in {DigitsOf(n) : n \in 1..12} |-> ParseInt(s).val]

ToInt(s) == IF s \in DOMAIN IdInts THEN IdInts[s] ELSE ParseInt(s).val

\* str(n), n >= 0
ToStr(n) == DigitsOf(n)

\* ------------------------------------------------------------------------
\* Dates.

MinutesPerDay == 1440

IsLeap(y) == (y % 4 = 0 /\ y % 100 # 0) \/ y % 400 = 0

DaysInMonth(y, m) ==
    IF m = 2 THEN (IF IsLeap(y) THEN 29 ELSE 28)
    ELSE IF m \in {4, 6, 9, 11} THEN 30 ELSE 31

\* days from 1970-01-01 to y-m-d in the proleptic Gregorian calendar
DaysFromCivil(y, m, d) ==
    LET yy == IF m <= 2 THEN y - 1 ELSE y
        era == yy \div 400
        yoe == yy - era * 400
        mp == IF m > 2 THEN m - 3 ELSE m + 9
        doy == (153 * mp + 2) \div 5 + d - 1
        doe == yoe * 365 + yoe \div 4 - yoe \div 100 + doy
    IN  era * 146097 + doe - 719468

\* datetime(y, m, d, H, M)
DateTime(y, m, d, H, M) == DaysFromCivil(y, m, d) * MinutesPerDay + H * 60 + M

\* timedelta(days=n)
TimeDelta(n) == n * MinutesPerDay

\* datetime.max: later than every datetime a store can hold
DatetimeMax == 2147483647

\* the clock at the first command
Now0 == DateTime(2025, 10, 26, 12, 0)


\* ------------------------------------------------------------------------
\* datetime.strptime for the formats parse_due_date tries.

Formats ==
    << <<"%Y", "-", "%m", "-", "%d">>,
       <<"%Y", "-", "%m", "-", "%d", " ", "%H", ":", "%M">>,
       <<"%Y", "/", "%m", "/", "%d">>,
       <<"%Y", "/", "%m", "/", "%d", " ", "%H", ":", "%M">>,
       <<"%d", "-", "%m", "-", "%Y">>,
       <<"%d", "/", "%m", "/", "%Y">> >>

Directives == {"%Y", "%m", "%d", "%H", "%M"}

Failed == [ok |-> FALSE, val |-> 0]

RECURSIVE DigitRun(_)
DigitRun(s) ==
    IF s # <<>> /\ IsDigit(s[1]) THEN <<s[1]>> \o DigitRun(Tail(s)) ELSE <<>>

RECURSIVE BlankRun(_)
BlankRun(s) ==
    IF s # <<>> /\ s[1] = " " THEN <<s[1]>> \o BlankRun(Tail(s)) ELSE <<>>

\* the digits a directive accepts
FieldOk(dir, digits) ==
    LET n == Len(digits)
        v == DigitsValue(digits)
    IN  CASE dir = "%Y" -> n = 4
          [] dir = "%m" -> n \in 1..2 /\ v \in 1..12
          [] dir = "%d" -> n \in 1..2 /\ v \in 1..31
          [] dir = "%H" -> n \in 1..2 /\ v \in 0..23
          [] dir = "%M" -> n \in 1..2 /\ v \in 0..59

\* the whole of s against the rest of a format; a blank of the format takes
\* one or more blanks, every other literal takes itself
RECURSIVE Match(_, _, _)
Match(s, fmt, acc) ==
    IF fmt = <<>> THEN [ok |-> s = <<>>, f |-> acc]
    ELSE IF fmt[1] \in Directives
    THEN LET r == DigitRun(s)
         IN  IF FieldOk(fmt[1], r)
             THEN Match(SubSeq(s, Len(r) + 1, Len(s)), Tail(fmt),
                        [acc EXCEPT ![fmt[1]] = DigitsValue(r)])
             ELSE [ok |-> FALSE, f |-> acc]
    ELSE IF fmt[1] = " "
    THEN LET b == BlankRun(s)
         IN  IF b # <<>>
             THEN Match(SubSeq(s, Len(b) + 1, Len(s)), Tail(fmt), acc)
             ELSE [ok |-> FALSE, f |-> acc]
    ELSE IF s # <<>> /\ s[1] = fmt[1] THEN Match(Tail(s), Tail(fmt), acc)
    ELSE [ok |-> FALSE, f |-> acc]

FieldDefaults ==
    [d \in Directives |->
        CASE d = "%Y" -> 1900 [] d = "%m" -> 1 [] d = "%d" -> 1 [] OTHER -> 0]

\* datetime.strptime(s, fmt): a datetime, or ValueError (ok = FALSE)
Strptime(s, fmt) ==
    LET m == Match(s, fmt, FieldDefaults)
        f == m.f
    IN  IF m.ok /\ f["%Y"] >= 1 /\ f["%d"] <= DaysInMonth(f["%Y"], f["%m"])
        THEN [ok |-> TRUE,
              val |-> DateTime(f["%Y"], f["%m"], f["%d"], f["%H"], f["%M"])]
        ELSE Failed

\* parse_relative_date(relative_str) with datetime.now() reading today
parse_relative_date(relative_str, today) ==
    LET value_str == SubSeq(relative_str, 2, Len(relative_str) - 1)
        unit == Lower(relative_str[Len(relative_str)])
        value == ParseInt(value_str)
    IN  IF ~value.ok THEN Failed
        ELSE IF unit = "d" THEN [ok |-> TRUE, val |-> today + TimeDelta(value.val)]
        ELSE IF unit = "w" THEN [ok |-> TRUE, val |-> today + TimeDelta(7 * value.val)]
        ELSE IF unit = "m" THEN [ok |-> TRUE, val |-> today + TimeDelta(value.val * 30)]
        ELSE Failed

\* command-line words for a due date that the commands of the model draw from
CmdDueTokens ==
    {<<>>,
     <<"2", "0", "2", "5", "-", "1", "0", "-", "2", "7">>,
     <<"+", "1", "y">>,
     <<"s", "o", "o", "n">>}

\* the words whose dates the stores of SortInit hold
StoreDueTokens ==
    {<<"2", "0", "2", "5", "-", "1", "0", "-", "2", "7">>,
     <<"2", "6", "/", "1", "0", "/", "2", "0", "2", "5">>,
     <<"+", "1", "d">>,
     <<"+", "1", "W">>}

DueTokens == CmdDueTokens \cup StoreDueTokens

\* the loop of parse_due_date over the formats: the first that parses
FirstFormat(due_date_str) ==
    LET hits == {i \in 1..Len(Formats) : Strptime(due_date_str, Formats[i]).ok}
    IN  IF hits # {}
        THEN Strptime(due_date_str, Formats[CHOOSE i \in hits : \A j \in hits : i <= j])
        ELSE Failed

\* FirstFormat of each word of DueTokens
FirstFormatOf == [s \in DueTokens |-> FirstFormat(s)]

\* whether parse_due_date gets to parse_relative_date's datetime.now()
ReadsClock(due_date_str) ==
    /\ ~FirstFormatOf[due_date_str].ok
    /\ due_date_str # <<>> /\ due_date_str[1] = "+"
    /\ ParseInt(SubSeq(due_date_str, 2, Len(due_date_str) - 1)).ok

\* parse_due_date(due_date_str): the first format that parses, else a
\* relative date, else ValueError
parse_due_date(due_date_str, today) ==
    IF FirstFormatOf[due_date_str].ok THEN FirstFormatOf[due_date_str]
    ELSE IF due_date_str # <<>> /\ due_date_str[1] = "+"
    THEN parse_relative_date(due_date_str, today)
    ELSE Failed

\* ------------------------------------------------------------------------
\* Display width, padding and the description cell.

\* every character one column wide
CharWidthOne(c) == Len(<<c>>)

\* the width get_display_width gives one character
CharWidth(c) ==
    IF \/ Ord(c) >= 19968 /\ Ord(c) <= 40959
       \/ Ord(c) >= 13312 /\ Ord(c) <= 19903
       \/ Ord(c) >= 63744 /\ Ord(c) <= 64255
       \/ Ord(c) >= 12288 /\ Ord(c) <= 12351
    THEN 2 ELSE 1

RECURSIVE get_display_width(_)
get_display_width(text) ==
    IF text = <<>> THEN 0
    ELSE CharWidth(text[1]) + get_display_width(Tail(text))

pad_text(text, width, align) ==
    LET text_width == get_display_width(text)
        padding == width - text_width
        left_padding == padding \div 2
        right_padding == padding - left_padding
    IN  IF text_width >= width THEN text
        ELSE IF align = "left" THEN text \o Rep(" ", padding)
        ELSE IF align = "right" THEN Rep(" ", padding) \o text
        ELSE Rep(" ", left_padding) \o text \o Rep(" ", right_padding)

col_widths == [id |-> 6, description |-> 30]

\* what of a too long description fits before the "..."
RECURSIVE TruncateLoop(_, _, _)
TruncateLoop(desc, truncated, current_width) ==
    IF desc = <<>> THEN truncated
    ELSE IF current_width + get_display_width(<<desc[1]>>) <= col_widths.description - 3
    THEN TruncateLoop(Tail(desc), truncated \o <<desc[1]>>,
                      current_width + get_display_width(<<desc[1]>>))
    ELSE truncated

\* desc as list_tasks prints it, before padding
TruncateDescription(description) ==
    IF get_display_width(description) > col_widths.description
    THEN TruncateLoop(description, <<>>, 0) \o <<".", ".", ".">>
    ELSE description

\* ------------------------------------------------------------------------
\* The store.

EmptyDict == [k \in {} |-> None]

\* d[key] = value
Put(d, key, value) ==
    [k \in DOMAIN d \cup {key} |-> IF k = key THEN value ELSE d[k]]

\* del d[key]
Del(d, key) == [k \in DOMAIN d \ {key} |-> d[k]]

\* load_tasks: a missing file is an empty store
load_tasks(file) == IF file = None THEN EmptyDict ELSE file[1]

\* the file after save_tasks
save_tasks(d) == Some(d)

\* the items of a dict, in the order add_task inserts them
RECURSIVE Items(_)
Items(d) ==
    IF DOMAIN d = {} THEN <<>>
    ELSE LET k == CHOOSE x \in DOMAIN d : \A y \in DOMAIN d : ToInt(x) <= ToInt(y)
         IN  <<<<k, d[k]>>>> \o Items(Del(d, k))

\* "if due_date:" on the optional argument
Truthy(due_date) == due_date # None /\ due_date[1] # <<>>

\* the next id from the number of tasks
NextTaskIdByCount(d) == ToStr(Cardinality(DOMAIN d) + 1)

\* the next id the first one free
NextTaskIdFirstFree(d) ==
    ToStr(CHOOSE n \in 1..(Cardinality(DOMAIN d) + 1) :
              /\ ToStr(n) \notin DOMAIN d
              /\ \A m \in 1..(n - 1) : ToStr(m) \in DOMAIN d)

\* the id add_task gives the next task
NextTaskId(d) == ToStr(Max({ToInt(k) : k \in DOMAIN d} \cup {0}) + 1)

NewTask(description, createdAt, updatedAt, dueDate) ==
    [description |-> description, status |-> "todo", createdAt |-> createdAt,
     updatedAt |-> updatedAt, dueDate |-> dueDate]

\* the dueDate set under "if due_date:"
UpdatedDueDateIfTruthy(old, due_date, parsed) ==
    IF Truthy(due_date) THEN Some(parsed.val) ELSE old

\* the dueDate update_task leaves in a task
UpdatedDueDate(old, due_date, parsed) ==
    IF due_date # None
    THEN (IF Truthy(due_date) THEN Some(parsed.val) ELSE None)
    ELSE old

\* the record of an update that starts the task over
UpdatedTaskReset(task, new_description, due_date, parsed, now) ==
    [task EXCEPT !.description = new_description,
                 !.status = "todo",
                 !.updatedAt = now,
                 !.dueDate = UpdatedDueDate(task.dueDate, due_date, parsed)]

\* the record update_task leaves
UpdatedTask(task, new_description, due_date, parsed, now) ==
    [task EXCEPT !.description = new_description,
                 !.updatedAt = now,
                 !.dueDate = UpdatedDueDate(task.dueDate, due_date, parsed)]

\* the record of a status change that stamps createdAt
StatusSetStampsCreated(task, status, now) ==
    [task EXCEPT !.status = status, !.createdAt = now]

\* the record _update_status leaves
StatusSet(task, status, now) ==
    [task EXCEPT !.status = status, !.updatedAt = now]


\* ------------------------------------------------------------------------
\* sort_tasks.

status_order(status) ==
    CASE status = "todo" -> 0
      [] status = "in-progress" -> 1
      [] status = "done" -> 2

\* the ids compared as text: the digits, left-aligned
IdKeyLexical(task_id) == DigitsValue(task_id \o Rep("0", 3 - Len(task_id)))

\* int(x[0])
IdKey(task_id) == ToInt(task_id)

\* datetime.max if not dueDate else fromisoformat(dueDate)
DueKey(task) == IF task.dueDate = None THEN DatetimeMax ELSE task.dueDate[1]

\* the key= of each branch of sort_tasks, x an item <<task_id, task>>
SortKey(sort_by, x) ==
    CASE sort_by = "created" -> <<x[2].createdAt, IdKey(x[1])>>
      [] sort_by = "updated" -> <<x[2].updatedAt, IdKey(x[1])>>
      [] sort_by = "status" -> <<status_order(x[2].status), DueKey(x[2]), IdKey(x[1])>>
      [] sort_by = "id" -> <<IdKey(x[1])>>
      [] OTHER -> <<DueKey(x[2]), IdKey(x[1])>>

\* the reverse= of each branch
SortReverse(sort_by) == sort_by \in {"created", "updated"}

\* a < b on tuples of one length
TupleLess(a, b) ==
    \E i \in 1..Len(a) : a[i] < b[i] /\ \A j \in 1..(i - 1) : a[j] = b[j]

\* whether x goes before e, an element already placed
GoesBefore(x, e, sort_by) ==
    IF SortReverse(sort_by)
    THEN TupleLess(SortKey(sort_by, e), SortKey(sort_by, x))
    ELSE TupleLess(SortKey(sort_by, x), SortKey(sort_by, e))

RECURSIVE InsertStable(_, _, _)
InsertStable(x, placed, sort_by) ==
    IF placed = <<>> THEN <<x>>
    ELSE IF GoesBefore(x, placed[1], sort_by) THEN <<x>> \o placed
    ELSE <<placed[1]>> \o InsertStable(x, Tail(placed), sort_by)

\* list.sort(key=..., reverse=...): stable, equal keys keep their order
RECURSIVE ListSort(_, _, _)
ListSort(list, placed, sort_by) ==
    IF list = <<>> THEN placed
    ELSE ListSort(Tail(list), InsertStable(list[1], placed, sort_by), sort_by)

\* sort_tasks(tasks_dict, sort_by): the items of the dict it returns, in order
sort_tasks(tasks_dict, sort_by) == ListSort(Items(tasks_dict), <<>>, sort_by)

\* ------------------------------------------------------------------------
\* list_tasks.

\* filtered_tasks of list_tasks
FilterTasks(d, status_filter) ==
    LET keep == {k \in DOMAIN d :
                    ~(status_filter # None /\ d[k].status # status_filter[1])}
    IN  [k \in keep |-> d[k]]

\* one printed line: the item and its id and description cells
Row(x) ==
    [task_id |-> x[1],
     task |-> x[2],
     id_cell |-> pad_text(x[1], col_widths.id, "right"),
     desc |-> TruncateDescription(x[2].description),
     description_cell |->
         pad_text(TruncateDescription(x[2].description), col_widths.description, "left")]

RECURSIVE Rows(_)
Rows(items) == IF items = <<>> THEN <<>> ELSE <<Row(items[1])>> \o Rows(Tail(items))

\* what list_tasks(status_filter, sort_by) prints: "No tasks found", or the
\* table's rows
list_tasks(d, status_filter, sort_by) ==
    IF DOMAIN d = {} THEN [text |-> "No tasks found", rows |-> <<>>]
    ELSE [text |-> "table",
          rows |-> Rows(sort_tasks(FilterTasks(d, status_filter), sort_by))]

Statuses == {"todo", "in-progress", "done"}
SortOptions == {"due", "created", "updated", "status", "id"}

\* the loop of main over the arguments of list: [status, sort_by]
RECURSIVE ParseListArgs(_, _, _)
ParseListArgs(args, status, sort_by) ==
    IF args = <<>> THEN [status |-> status, sort_by |-> sort_by]
    ELSE IF args[1] \in Statuses
    THEN ParseListArgs(Tail(args), Some(args[1]), sort_by)
    ELSE IF args[1] \in SortOptions
    THEN ParseListArgs(Tail(args), status, args[1])
    ELSE ParseListArgs(Tail(args), status, sort_by)


\* ------------------------------------------------------------------------
\* The commands of main.  Each is one run of the program: TaskTracker()
\* loads the store, the command runs, and save_tasks writes the file when
\* the command gets that far.  Every datetime.now() reads a clock that
\* has moved on or not since the read before it.

\* command-line words the model draws from
Descriptions == {<<>>, <<"a">>, <<"b">>}

\* the optional due_date argument: left out, or one of the words
DueArgs == {None} \cup {Some(s) : s \in CmdDueTokens}

IdArgs == {ToStr(i) : i \in 1..MaxId}

ClockEnd == Now0 + MaxClock

\* the record of a command: what it was given, whether it returned True,
\* whether it wrote the file, and what it printed
Command(cmd, ok, wrote, task_id, description, due_date, text) ==
    [cmd |-> cmd, ok |-> ok, wrote |-> wrote, task_id |-> task_id,
     description |-> description, due_date |-> due_date, text |-> text,
     rows |-> <<>>, status_filter |-> None, sort_by |-> "due"]

\* a command that prints an error and returns before it changes anything
Fails(cmd, task_id, error, now) ==
    /\ tasks' = load_tasks(db)
    /\ db' = db
    /\ clock' = now
    /\ last' = Command(cmd, FALSE, FALSE, task_id, <<>>, None, error)
    /\ UNCHANGED retired

\* a command that changed self.tasks to d and saved it
Saves(cmd, d, task_id, description, due_date, now) ==
    /\ tasks' = d
    /\ db' = save_tasks(d)
    /\ clock' = now
    /\ last' = Command(cmd, TRUE, TRUE, task_id, description, due_date, "OK")
    /\ retired' = IF cmd = "delete" THEN retired \cup {task_id[1]} ELSE retired

ErrEmpty == "Error: Task description cannot be empty"
ErrNotFound == "Error: Task with ID not found"
ErrDueDate == "Error: Invalid due date format"

Times == clock..ClockEnd

\* the instants at which parse_due_date may read the clock: any from now on
\* when it gets to parse_relative_date's datetime.now(), else no read
ParseTimes(parses, due_date) ==
    IF parses /\ ReadsClock(due_date[1]) THEN Times ELSE {clock}

\* add_task(description, due_date)
AddTask(description, due_date) ==
    LET loaded == load_tasks(db)
        task_id == NextTaskId(loaded)
        parses == description # <<>> /\ Truthy(due_date)
    IN  \E t0 \in ParseTimes(parses, due_date) :
            LET parsed == IF parses THEN parse_due_date(due_date[1], t0) ELSE Failed
            IN  IF description = <<>> THEN Fails("add", None, ErrEmpty, t0)
                ELSE IF parses /\ ~parsed.ok THEN Fails("add", None, ErrDueDate, t0)
                ELSE /\ ToInt(task_id) <= MaxId
                     /\ \E t1 \in t0..ClockEnd : \E t2 \in t1..ClockEnd :
                            Saves("add",
                                  Put(loaded, task_id,
                                      NewTask(description, t1, t2,
                                              IF parses THEN Some(parsed.val)
                                              ELSE None)),
                                  Some(task_id), description, due_date, t2)

\* update_task with the description assigned before the due date is parsed
UpdateTaskEarly(task_id, new_description, due_date) ==
    LET loaded == load_tasks(db)
        known == task_id \in DOMAIN loaded
        parses == known /\ new_description # <<>> /\ Truthy(due_date)
    IN  \E t0 \in ParseTimes(parses, due_date) :
            LET parsed == IF parses THEN parse_due_date(due_date[1], t0) ELSE Failed
            IN  IF ~known THEN Fails("update", Some(task_id), ErrNotFound, t0)
                ELSE IF new_description = <<>>
                THEN Fails("update", Some(task_id), ErrEmpty, t0)
                ELSE IF parses /\ ~parsed.ok
                THEN /\ tasks' = Put(loaded, task_id,
                                     [loaded[task_id] EXCEPT
                                         !.description = new_description,
                                         !.updatedAt = t0])
                     /\ db' = db
                     /\ clock' = t0
                     /\ last' = Command("update", FALSE, FALSE, Some(task_id),
                                        <<>>, None, ErrDueDate)
                     /\ UNCHANGED retired
                ELSE \E t1 \in t0..ClockEnd :
                         Saves("update",
                               Put(loaded, task_id,
                                   UpdatedTask(loaded[task_id], new_description,
                                               due_date, parsed, t1)),
                               Some(task_id), new_description, due_date, t1)

\* update_task(task_id, new_description, due_date)
UpdateTask(task_id, new_description, due_date) ==
    LET loaded == load_tasks(db)
        known == task_id \in DOMAIN loaded
        parses == known /\ new_description # <<>> /\ Truthy(due_date)
    IN  \E t0 \in ParseTimes(parses, due_date) :
            LET parsed == IF parses THEN parse_due_date(due_date[1], t0) ELSE Failed
            IN  IF ~known THEN Fails("update", Some(task_id), ErrNotFound, t0)
                ELSE IF new_description = <<>>
                THEN Fails("update", Some(task_id), ErrEmpty, t0)
                ELSE IF parses /\ ~parsed.ok
                THEN Fails("update", Some(task_id), ErrDueDate, t0)
                ELSE \E t1 \in t0..ClockEnd :
                         Saves("update",
                               Put(loaded, task_id,
                                   UpdatedTask(loaded[task_id], new_description,
                                               due_date, parsed, t1)),
                               Some(task_id), new_description, due_date, t1)

\* delete_task(task_id)
DeleteTask(task_id) ==
    LET loaded == load_tasks(db)
    IN  IF task_id \notin DOMAIN loaded
        THEN Fails("delete", Some(task_id), ErrNotFound, clock)
        ELSE Saves("delete", Del(loaded, task_id), Some(task_id), <<>>, None, clock)

\* _update_status(task_id, status)
update_status(cmd, task_id, status, now) ==
    LET loaded == load_tasks(db)
    IN  IF task_id \notin DOMAIN loaded
        THEN /\ now = clock
             /\ Fails(cmd, Some(task_id), ErrNotFound, clock)
        ELSE Saves(cmd, Put(loaded, task_id, StatusSet(loaded[task_id], status, now)),
                   Some(task_id), <<>>, None, now)

mark_in_progress(task_id, now) ==
    update_status("mark-in-progress", task_id, "in-progress", now)

mark_done(task_id, now) == update_status("mark-done", task_id, "done", now)

\* list with its arguments: list_by_status when a status is among them,
\* list_tasks otherwise
Listed(cmd, printed, status_filter, sort_by) ==
    [cmd |-> cmd, ok |-> TRUE, wrote |-> FALSE, task_id |-> None,
     description |-> <<>>, due_date |-> None,
     text |-> printed.text, rows |-> printed.rows,
     status_filter |-> status_filter, sort_by |-> sort_by]

ListTasks(args) ==
    LET loaded == load_tasks(db)
        a == ParseListArgs(args, None, "due")
    IN  /\ last' = Listed("list", list_tasks(loaded, a.status, a.sort_by),
                          a.status, a.sort_by)
        /\ tasks' = loaded
        /\ UNCHANGED <<db, clock, retired>>

\* tracker.sort_tasks(tracker.tasks, sort_by), called on its own
SortTasks(sort_by) ==
    LET loaded == load_tasks(db)
    IN  /\ last' = Listed("sort_tasks",
                          [text |-> "", rows |-> Rows(sort_tasks(loaded, sort_by))],
                          None, sort_by)
        /\ tasks' = loaded
        /\ UNCHANGED <<db, clock, retired>>

AddCmd ==
    \E description \in Descriptions, due_date \in DueArgs :
        AddTask(description, due_date)

UpdateCmd ==
    \E task_id \in IdArgs, description \in Descriptions, due_date \in DueArgs :
        UpdateTask(task_id, description, due_date)

DeleteCmd == \E task_id \in IdArgs : DeleteTask(task_id)

MarkInProgressCmd == \E task_id \in IdArgs, now \in Times : mark_in_progress(task_id, now)

MarkDoneCmd == \E task_id \in IdArgs, now \in Times : mark_done(task_id, now)

ListCmd ==
    \E args \in {<<>>, <<"created">>} : ListTasks(args)

Init ==
    /\ db = None
    /\ tasks = EmptyDict
    /\ clock = Now0
    /\ last = Command("none", FALSE, FALSE, None, <<>>, None, "")
    /\ retired = {}

Next ==
    \/ AddCmd
    \/ UpdateCmd
    \/ DeleteCmd
    \/ MarkInProgressCmd
    \/ MarkDoneCmd
    \/ ListCmd

Spec == Init /\ [][Next]_vars


\* ------------------------------------------------------------------------
\* Sorting and listing a store that earlier runs left.  The ids are what is
\* left of ten adds, the due dates what add_task parsed when the clock
\* read Now0; the tasks with ids 9 and 10 were added in the same minute.

SortIds == {ToStr(2), ToStr(9), ToStr(10)}

StoreDueDates == {None} \cup {Some(parse_due_date(s, Now0).val) : s \in StoreDueTokens}

StoredTask(task_id, status, dueDate) ==
    LET at == IF ToInt(task_id) < 9 THEN Now0 - 1 ELSE Now0
    IN  [NewTask(<<"a">>, at, at, dueDate) EXCEPT !.status = status]

SortStores ==
    UNION {[ids -> {"todo", "done"} \X StoreDueDates] : ids \in (SUBSET SortIds) \ {{}}}

SortInit ==
    /\ \E f \in SortStores :
          tasks = [k \in DOMAIN f |-> StoredTask(k, f[k][1], f[k][2])]
    /\ db = save_tasks(tasks)
    /\ clock = Now0
    /\ last = Command("none", FALSE, FALSE, None, <<>>, None, "")
    /\ retired = {}

ListWords == {"todo", "done", "due", "created", "updated", "status", "id", "bogus"}

ListArgLists ==
    {<<>>} \cup {<<w>> : w \in ListWords} \cup {<<"id", "done">>, <<"bogus", "todo">>}

ListAnyCmd == \E args \in ListArgLists : ListTasks(args)

SortCall == \E sort_by \in SortOptions \cup {"bogus"} : SortTasks(sort_by)

SortNext ==
    \/ ListAnyCmd
    \/ SortCall

SpecSort == SortInit /\ [][SortNext]_vars

\* ------------------------------------------------------------------------
\* Listing a store of one task whose description is a run of narrow
\* characters and a run of wide ones, between a short head and tail.

Heads == {<<>>, <<"U4E2D">>, <<"U3042", "U3000">>}
Tails == {<<>>, <<"A">>, <<"UFF21", "U4E2D">>, <<"U4E2D", "A", "A">>}

RenderDescriptions ==
    {h \o Rep("A", a) \o Rep("U4E2D", b) \o t :
        h \in Heads, a \in 0..MaxNarrow, b \in 0..MaxWide, t \in Tails} \ {<<>>}

RenderInit ==
    /\ \E description \in RenderDescriptions :
          tasks = Put(EmptyDict, ToStr(1), NewTask(description, Now0, Now0, None))
    /\ db = save_tasks(tasks)
    /\ clock = Now0
    /\ last = Command("none", FALSE, FALSE, None, <<>>, None, "")
    /\ retired = {}

RenderCmd == ListTasks(<<>>)

RenderNext == RenderCmd

SpecRender == RenderInit /\ [][RenderNext]_vars


\* ------------------------------------------------------------------------
\* Properties.

Mutating == {"add", "update", "delete", "mark-in-progress", "mark-done"}

\* the step is a successful add, and NewId the id it assigned
Added == last'.cmd = "add" /\ last'.ok
NewId == last'.task_id[1]

\* the step is a successful update, and Target the task it was given
Updated == last'.cmd = "update" /\ last'.ok
Target == last'.task_id[1]

\* C1, as claimed: no step takes a task that is done to another status.
DoneStaysDone ==
    [][\A k \in DOMAIN tasks \cap DOMAIN tasks' :
          tasks[k].status = "done" => tasks'[k].status = "done"]_vars

\* C1, amended: a task that is done stays done in every step but a
\* mark-in-progress on its id, which makes it in-progress; it is never
\* todo again.
DoneLeftOnlyByMarkInProgress ==
    [][\A k \in DOMAIN tasks \cap DOMAIN tasks' :
          tasks[k].status = "done" =>
              \/ tasks'[k].status = "done"
              \/ /\ tasks'[k].status = "in-progress"
                 /\ last'.cmd = "mark-in-progress"
                 /\ last'.ok
                 /\ last'.task_id = Some(k)]_vars

\* C1 witness: an update has just rewritten a task that is done.
DoneTaskUpdated ==
    /\ last.cmd = "update"
    /\ last.ok
    /\ tasks[last.task_id[1]].status = "done"

\* C2: a command that fails leaves the mapping in memory and the file as
\* they were, and does not write the file.
FailureChangesNothing ==
    [][(last'.cmd \in Mutating /\ ~last'.ok) =>
          /\ tasks' = load_tasks(db)
          /\ tasks' = tasks
          /\ db' = db
          /\ ~last'.wrote]_vars

\* C2 witness: update has just refused a due date for a task of the store,
\* after the description passed.
UpdateRefusedDueDate ==
    /\ last.cmd = "update"
    /\ ~last.ok
    /\ last.text = ErrDueDate
    /\ last.task_id[1] \in DOMAIN tasks

\* C3: a successful add gives the new task the greatest id of the store plus
\* one (1 for an empty store), which is no key of the store, and leaves every
\* other record as it was.
AddAssignsMaxPlusOne ==
    [][Added =>
          LET pre == load_tasks(db)
              nums == {ToInt(k) : k \in DOMAIN pre}
          IN  /\ ToInt(NewId) = (IF nums = {} THEN 1 ELSE Max(nums) + 1)
              /\ NewId \notin DOMAIN pre
              /\ DOMAIN tasks' = DOMAIN pre \cup {NewId}
              /\ \A k \in DOMAIN pre : tasks'[k] = pre[k]
              /\ db' = Some(tasks')]_vars

\* C3 witness: the latest add came after the task with the greatest id was
\* deleted, and took that id again beside a task that stayed.
AddAfterDeletingHighest ==
    /\ last.cmd = "add"
    /\ last.ok
    /\ last.task_id[1] \in retired
    /\ Cardinality(DOMAIN tasks) = 2

\* C4, as claimed: the id of every successful add is greater than every id
\* assigned before it, those of the deleted tasks included.
AddIdAboveAllEarlier ==
    [][Added =>
          \A j \in retired \cup DOMAIN load_tasks(db) : ToInt(NewId) > ToInt(j)]_vars

\* C4, amended: the id of every successful add is greater than the id of
\* every task in the store at that moment and at most one more than the
\* greatest id assigned so far; the id of a deleted task is assigned again
\* only when no task with that id or a greater one is left.
AddIdAboveAllStored ==
    [][Added =>
          LET pre == load_tasks(db)
              given == {ToInt(j) : j \in retired \cup DOMAIN pre} \cup {0}
          IN  /\ \A j \in DOMAIN pre : ToInt(NewId) > ToInt(j)
              /\ ToInt(NewId) <= Max(given) + 1
              /\ NewId \in retired =>
                    \A j \in DOMAIN tasks' \ {NewId} : ToInt(j) < ToInt(NewId)]_vars

\* C4 witness: the latest add gave the id of a deleted task to the only task
\* of the store.
DeletedIdAssignedAgain ==
    /\ last.cmd = "add"
    /\ last.ok
    /\ last.task_id[1] \in retired
    /\ DOMAIN tasks = {last.task_id[1]}

\* C5: a successful update sets description and updatedAt, leaves status,
\* createdAt and the other tasks alone, and leaves dueDate when the due date
\* is left out, clears it for the empty word, and sets it to the parsed date
\* for any other word.
UpdateDueDateCases ==
    [][Updated =>
          LET pre == load_tasks(db)
              due == last'.due_date
          IN  /\ Target \in DOMAIN pre
              /\ DOMAIN tasks' = DOMAIN pre
              /\ \A j \in DOMAIN pre \ {Target} : tasks'[j] = pre[j]
              /\ tasks'[Target].description = last'.description
              /\ tasks'[Target].updatedAt = clock'
              /\ tasks'[Target].status = pre[Target].status
              /\ tasks'[Target].createdAt = pre[Target].createdAt
              /\ due = None => tasks'[Target].dueDate = pre[Target].dueDate
              /\ due = Some(<<>>) => tasks'[Target].dueDate = None
              /\ (due # None /\ due # Some(<<>>)) =>
                    \E t \in clock..clock' :
                        /\ parse_due_date(due[1], t).ok
                        /\ tasks'[Target].dueDate = Some(parse_due_date(due[1], t).val)]_vars

\* C5 witness: the latest update was given no due date and the task still
\* has the one it had.
UpdateKeptDueDate ==
    /\ last.cmd = "update"
    /\ last.ok
    /\ last.due_date = None
    /\ tasks[last.task_id[1]].dueDate # None

\* C6, as claimed: a list right after a successful add shows one row for
\* the new task and one row for each task, and the new task is todo with
\* createdAt equal to updatedAt.
AddThenListShowsOneNewRow ==
    [][(last.cmd = "add" /\ last.ok /\ last'.cmd = "list"
            /\ last'.status_filter = None) =>
          LET rows == last'.rows
              new == {i \in 1..Len(rows) : rows[i].task_id = last.task_id[1]}
          IN  /\ Cardinality(new) = 1
              /\ Len(rows) = Cardinality(DOMAIN tasks)
              /\ \A i \in new :
                    /\ rows[i].task.status = "todo"
                    /\ rows[i].task.createdAt = rows[i].task.updatedAt]_vars

\* the timestamp a sort key orders by
StampOf(row, sort_by) ==
    IF sort_by = "created" THEN row.task.createdAt ELSE row.task.updatedAt

\* C7, as claimed: sorted by created or by updated, the rows go from the
\* latest timestamp to the earliest, equal timestamps by ascending id.
StampSortTiesAscending ==
    (last.cmd \in {"list", "sort_tasks"} /\ last.sort_by \in {"created", "updated"}) =>
        \A i, j \in 1..Len(last.rows) :
            i < j =>
                \/ StampOf(last.rows[i], last.sort_by) > StampOf(last.rows[j], last.sort_by)
                \/ /\ StampOf(last.rows[i], last.sort_by) = StampOf(last.rows[j], last.sort_by)
                   /\ ToInt(last.rows[i].task_id) < ToInt(last.rows[j].task_id)

\* a row comes before another in due order: dated before undated, earlier
\* date first, the lower number first among equals
DueBefore(a, b) ==
    \/ a.task.dueDate # None /\ b.task.dueDate = None
    \/ /\ a.task.dueDate # None /\ b.task.dueDate # None
       /\ \/ a.task.dueDate[1] < b.task.dueDate[1]
          \/ /\ a.task.dueDate[1] = b.task.dueDate[1]
             /\ ToInt(a.task_id) < ToInt(b.task_id)
    \/ /\ a.task.dueDate = None /\ b.task.dueDate = None
       /\ ToInt(a.task_id) < ToInt(b.task_id)

\* C8: sorted by due, or with no sort key or one that is not known, the rows
\* are the tasks asked for, dated ones by ascending due date before all
\* undated ones, equal or missing dates by ascending number of the id.
DueSortOrder ==
    (last.cmd \in {"list", "sort_tasks"}
        /\ last.sort_by \notin {"created", "updated", "status", "id"}
        /\ last.text # "No tasks found") =>
        LET rows == last.rows
            shown == FilterTasks(tasks, last.status_filter)
        IN  /\ Len(rows) = Cardinality(DOMAIN shown)
            /\ {rows[i].task_id : i \in 1..Len(rows)} = DOMAIN shown
            /\ \A i \in 1..Len(rows) : rows[i].task = tasks[rows[i].task_id]
            /\ \A i, j \in 1..Len(rows) : i < j => DueBefore(rows[i], rows[j])

\* C8 witness: a list by due shows 9 before 10, which are due together, and
\* after them 2, which has no due date.
NineTenThenUndated ==
    /\ last.cmd = "list"
    /\ last.sort_by = "due"
    /\ Len(last.rows) = 3
    /\ last.rows[1].task_id = <<"9">>
    /\ last.rows[2].task_id = <<"1", "0">>
    /\ last.rows[3].task_id = <<"2">>
    /\ last.rows[1].task.dueDate # None
    /\ last.rows[1].task.dueDate = last.rows[2].task.dueDate
    /\ last.rows[3].task.dueDate = None

\* the columns of a text whose wide glyphs take two
WideGlyphs == {"U4E2D", "U3000"}

RECURSIVE Columns(_)
Columns(text) ==
    IF text = <<>> THEN 0
    ELSE (IF text[1] \in WideGlyphs THEN 2 ELSE 1) + Columns(Tail(text))

\* C9: a description of at most 30 columns is printed whole; a wider one is
\* printed as its longest prefix of at most 27 columns and "..."; the cell
\* is never wider than 30 columns.
DescriptionCellFits ==
    last.cmd = "list" =>
        \A i \in 1..Len(last.rows) :
            LET d == last.rows[i].task.description
                shown == last.rows[i].desc
                cell == last.rows[i].description_cell
            IN  /\ Columns(d) <= 30 => shown = d
                /\ Columns(d) > 30 =>
                      \E n \in 0..(Len(d) - 1) :
                          /\ shown = SubSeq(d, 1, n) \o <<".", ".", ".">>
                          /\ Columns(SubSeq(d, 1, n)) <= 27
                          /\ Columns(SubSeq(d, 1, n + 1)) > 27
                /\ Columns(shown) <= 30
                /\ Columns(cell) <= 30
                /\ SubSeq(cell, 1, Len(shown)) = shown

\* C9 witness: a description of no more than 30 characters and more than 30
\* columns is cut where a wide glyph would pass column 27.
WideDescriptionCut ==
    /\ last.cmd = "list"
    /\ \E i \in 1..Len(last.rows) :
          /\ Len(last.rows[i].task.description) <= 30
          /\ Columns(last.rows[i].task.description) > 30
          /\ Columns(last.rows[i].desc) = 29

\* C10: in every step each task of the store has updatedAt >= createdAt and
\* keeps the createdAt it had.
TimestampsOrdered ==
    [][/\ \A k \in DOMAIN tasks' : tasks'[k].updatedAt >= tasks'[k].createdAt
       /\ \A k \in DOMAIN tasks \cap DOMAIN tasks' :
             tasks'[k].createdAt = tasks[k].createdAt]_vars

\* C10 witness: mark-done has just stamped a task later than it was created.
MarkedAfterCreation ==
    /\ last.cmd = "mark-done"
    /\ last.ok
    /\ tasks[last.task_id[1]].updatedAt > tasks[last.task_id[1]].createdAt

=============================================================================
